---- MODULE Spec2Model ----
(***************************************************************************)
(* Double DQN agent with prioritized experience replay                     *)
(* (src/dvonn_ddqn.py): the replay Memory over a SumTree, the Agent's      *)
(* target computation, observe and replay, the RandomAgent, and the        *)
(* episode loop Environment.run.                                           *)
(*                                                                         *)
(* Numbers.  Rewards, action values, targets and TD errors are fixed-point *)
(* integers in units of 0.01 (1.0 is Unit = 100).  Priorities are in units *)
(* of 0.1.  A cumulative value handed to SumTree.get by Memory.sample(n)   *)
(* is a rational with denominator n, held as its numerator.  epsilon is in *)
(* units of 0.000001.                                                      *)
(***************************************************************************)
EXTENDS Integers, Sequences, FiniteSets, TLC

(***************************************************************************)
(* Bounds of the model.                                                    *)
(***************************************************************************)
\* MEMORY_CAPACITY (line 123) is 200000 in the source; the model checks a
\* small tree whose capacity is, like 200000, not a power of two, so that
\* its leaves lie on two levels.
MEMORY_CAPACITY == 3
\* UPDATE_TARGET_FREQUENCY (line 135) is 10000 in the source.
UPDATE_TARGET_FREQUENCY == 2
\* The number of observe calls that complete on one agent.
MaxSteps == 3
\* The largest n of a direct Memory.sample(n) call.
MaxN == 2
\* The number of direct Memory.add / Memory.update calls in SpecMemory.
MaxMemOps == 2
\* The number of observe calls on the agents of SpecAgents.
MaxObserves == 3

(***************************************************************************)
(* Program constants.                                                      *)
(***************************************************************************)
Unit == 10 * 10
BATCH_SIZE == 1
\* GAMMA = 0.99, in units of 0.01
GAMMA == 99
\* Memory.e = 0.01, in units of 0.01
Memory_e == 1
\* Memory.a = 0.6 = Memory_a_num / Memory_a_den
Memory_a_num == 3
Memory_a_den == 5
\* MAX_EPSILON = 1 and MIN_EPSILON = 0.1, in units of 0.000001
MAX_EPSILON == 1000000
MIN_EPSILON == 100000
\* The decay rate -log(0.01) / EXPLORATION_STOP = 0.00000921... of line 133,
\* in units of 0.000001 per step
Lambda == 9

(***************************************************************************)
(* The domains the inputs are drawn from.                                  *)
(***************************************************************************)
\* Observations are abstract images; 0 is the all-zero image, which is
\* also what extract_states substitutes for a missing successor.
States == 0 .. 1
Actions == 0 .. 1
\* Rewards stored in a transition.
Rewards == {0, Unit}
\* The parameter settings of the approximator (opaque weights).
Weights == 0 .. 2
\* An optional value: <<>> is Python's None (or a slot never written),
\* <<v>> is the value v.
None == <<>>
Some(v) == <<v>>
Samples == [s : States, a : Actions, r : Rewards,
            s_ : {None} \cup {Some(x) : x \in States}]
\* The transitions the agent of Spec observes.
AgentSamples ==
  {x \in Samples : /\ x.r = Unit /\ x.a = x.s
                   /\ x.s_ = (IF x.s = 0 THEN None ELSE Some(0))}

Abs(x) == IF x < 0 THEN -x ELSE x

RECURSIVE Pow(_, _)
Pow(x, n) == IF n = 0 THEN 1 ELSE x * Pow(x, n - 1)

(***************************************************************************)
(* SumTree: the module imported at line 13 is not part of the sources; it  *)
(* is modelled from the design document (section 4.1): a flat array of     *)
(* 2*capacity - 1 nodes, children of i at 2i+1 and 2i+2, parent at         *)
(* (i-1)/2, leaves in the last `capacity` places, a write cursor that      *)
(* wraps at capacity.                                                      *)
(***************************************************************************)
SumTree(capacity) ==
  [capacity |-> capacity,
   tree |-> [i \in 0 .. 2 * capacity - 2 |-> 0],
   data |-> [i \in 0 .. capacity - 1 |-> None],
   write |-> 0]

RECURSIVE Propagate(_, _, _)
Propagate(tree, idx, change) ==
  LET parent == (idx - 1) \div 2
      t2 == [tree EXCEPT ![parent] = @ + change]
  IN IF parent /= 0 THEN Propagate(t2, parent, change) ELSE t2

TreeUpdate(T, idx, p) ==
  LET change == p - T.tree[idx]
  IN [T EXCEPT !.tree = Propagate([T.tree EXCEPT ![idx] = p], idx, change)]

TreeAdd(T, p, data) ==
  LET idx == T.write + T.capacity - 1
      T1 == [T EXCEPT !.data[T.write] = Some(data)]
      T2 == TreeUpdate(T1, idx, p)
  IN [T2 EXCEPT !.write = IF T.write + 1 >= T.capacity THEN 0 ELSE T.write + 1]

\* The descent for the cumulative value sNum / n.
RECURSIVE Retrieve(_, _, _, _)
Retrieve(T, idx, sNum, n) ==
  LET left == 2 * idx + 1
      right == left + 1
  IN IF left >= 2 * T.capacity - 1 THEN idx
     ELSE IF sNum <= n * T.tree[left] THEN Retrieve(T, left, sNum, n)
     ELSE Retrieve(T, right, sNum - n * T.tree[left], n)

TreeGet(T, sNum, n) ==
  LET idx == Retrieve(T, 0, sNum, n)
  IN [idx |-> idx, p |-> T.tree[idx], data |-> T.data[idx - T.capacity + 1]]

TreeTotal(T) == T.tree[0]

(***************************************************************************)
(* Memory (lines 90-120).                                                  *)
(***************************************************************************)
\* (error + e) ** a.  With error in units of 0.01 and the result P in
\* units of 0.1:  (P/10)^5 = ((error + e)/100)^3, that is
\* 10 * P^5 = (error + e)^3; P is rounded up to the grid, so that it is
\* positive as the real power is.
PriorityOf(error) ==
  LET c == Pow(error + Memory_e, Memory_a_num)
  IN CHOOSE P \in 0 .. 40 :
       /\ 10 * Pow(P, Memory_a_den) >= c
       /\ \A Q \in 0 .. P - 1 : 10 * Pow(Q, Memory_a_den) < c

\* The errors of the model are below 6.0.
PriorityTable == [error \in 0 .. 6 * Unit |-> PriorityOf(error)]

getPriority(error) == PriorityTable[error]

MemoryAdd(M, error, sample) == TreeAdd(M, getPriority(error), sample)

MemoryUpdate(M, idx, error) == TreeUpdate(M, idx, getPriority(error))

\* random.uniform(a, b) computes a + (b - a) * random.random() with
\* random() in [0, 1).  With a = 0 the product stays below b; with a > 0
\* the sum can round up to b itself (the documented "a <= N <= b").  The
\* values are numerators over n; of the interior of the segment the model
\* draws the middle and the point next to the upper end.
Uniform(aNum, bNum) ==
  {x \in aNum .. bNum :
     /\ x \in {aNum, (aNum + bNum) \div 2, bNum - 1, bNum}
     /\ (x = bNum => (aNum > 0 \/ aNum = bNum))}

\* Mutant of SampleDraws: every draw is made over the whole of [0, total].
RECURSIVE SampleDraws_Unstratified(_, _, _)
SampleDraws_Unstratified(M, n, k) ==
  IF k = 0 THEN {<<>>}
  ELSE {Append(d, x) : d \in SampleDraws_Unstratified(M, n, k - 1),
                       x \in Uniform(0, TreeTotal(M) * n)}

\* The draws sample(n) can make, one per segment of width total / n, as
\* the sequences of their first k values.
RECURSIVE SampleDraws(_, _, _)
SampleDraws(M, n, k) ==
  IF k = 0 THEN {<<>>}
  ELSE {Append(d, x) : d \in SampleDraws(M, n, k - 1),
                       x \in Uniform(TreeTotal(M) * (k - 1), TreeTotal(M) * k)}

\* The priorities tree.get returns to sample(n), which drops them.
SampledPriorities(M, n, d) == [k \in 1 .. n |-> TreeGet(M, d[k], n).p]

\* sample(n) with the draws d: the batch of (idx, data) pairs.
MemorySample(M, n, d) ==
  [k \in 1 .. n |->
     LET g == TreeGet(M, d[k], n) IN [idx |-> g.idx, data |-> g.data]]

(***************************************************************************)
(* Brain (lines 52-87).  The approximator is an external collaborator: the *)
(* model stands for it by a table of action values per weights and state,  *)
(* in whole units.  Weights 0 and 1 disagree on the best action of every   *)
(* state; weights 2 rate the actions of a state equally.                   *)
(***************************************************************************)
QTable ==
  << << <<0, 1>>, <<2, 1>> >>,
     << <<1, 0>>, <<0, 2>> >>,
     << <<1, 1>>, <<2, 2>> >> >>

\* Brain.predict for one state: model_ when target, else model.
Predict(w, s) == [a \in Actions |-> QTable[w + 1][s + 1][a + 1] * Unit]

\* numpy.argmax: the first index of the largest value.
ArgMax(v) ==
  CHOOSE a \in DOMAIN v :
     /\ \A b \in DOMAIN v : v[b] <= v[a]
     /\ \A b \in DOMAIN v : b < a => v[b] < v[a]

(***************************************************************************)
(* Agent (lines 137-234).                                                  *)
(***************************************************************************)
\* numpy.zeros(stateCnt): the all-zero state.
no_state == 0

\* GAMMA * v
TimesGamma(v) == (GAMMA * v) \div Unit

\* MIN_EPSILON + (MAX_EPSILON - MIN_EPSILON) * exp(-LAMBDA * steps), with
\* exp(-x) = 1 - x to the precision of the unit for the steps of the model.
Epsilon(n) ==
  MIN_EPSILON + (MAX_EPSILON - MIN_EPSILON)
    - (((MAX_EPSILON - MIN_EPSILON) \div 100000) * Lambda * n) \div 10

\* extract_states: the states and the successor states of a batch, the
\* all-zero state standing in for a missing successor.
extract_states(batch) ==
  [states |-> [k \in DOMAIN batch |-> batch[k].data[1].s],
   states_ |-> [k \in DOMAIN batch |->
                  IF batch[k].data[1].s_ = None THEN no_state
                  ELSE batch[k].data[1].s_[1]]]

\* getPredictions: online for s, online for s', target for s'.
getPredictions(w, w_, states, states_) ==
  [p |-> [k \in DOMAIN states |-> Predict(w, states[k])],
   p_ |-> [k \in DOMAIN states_ |-> Predict(w, states_[k])],
   pTarget_ |-> [k \in DOMAIN states_ |-> Predict(w_, states_[k])]]

\* Mutant of getStateAndPrediction: the action is chosen by the target
\* network too (no double learning).
getStateAndPrediction_TargetArgmax(o, p, pTarget_, p_) ==
  LET sample == o.data[1]
      oldVal == p[sample.a]
      new == IF sample.s_ = None THEN sample.r
             ELSE sample.r + (GAMMA * pTarget_[ArgMax(pTarget_)]) \div Unit
      t == [p EXCEPT ![sample.a] = new]
  IN [x |-> sample.s, y |-> t, errors |-> Abs(oldVal - t[sample.a])]

\* Mutant of getStateAndPrediction: a missing successor is treated as the
\* all-zero state and bootstrapped from.
getStateAndPrediction_ZeroSuccessor(o, p, pTarget_, p_) ==
  LET sample == o.data[1]
      oldVal == p[sample.a]
      new == sample.r + (GAMMA * pTarget_[ArgMax(p_)]) \div Unit
      t == [p EXCEPT ![sample.a] = new]
  IN [x |-> sample.s, y |-> t, errors |-> Abs(oldVal - t[sample.a])]

\* getStateAndPrediction for one batch entry o = (idx, (s, a, r, s_)).
getStateAndPrediction(o, p, pTarget_, p_) ==
  LET sample == o.data[1]
      oldVal == p[sample.a]
      new == IF sample.s_ = None THEN sample.r
             ELSE sample.r + TimesGamma(pTarget_[ArgMax(p_)])
      t == [p EXCEPT ![sample.a] = new]
  IN [x |-> sample.s, y |-> t, errors |-> Abs(oldVal - t[sample.a])]

\* What ipdb.set_trace() at lines 213-214 can end in: the import fails,
\* the user quits the debugger, or the user lets the program continue.
Debugger == {"ImportError", "BdbQuit", "continue"}

\* _getTargets.  predictOk: whether the approximator's predict succeeds.
\* A payload that is no (s, a, r, s_) tuple fails at o[1][0] in
\* extract_states.  A predict failure is caught at line 211 and printed;
\* after the debugger the loop of line 220 reads p, which was never bound.
\* States are abstract here, so the rank test of line 207 is not modelled.
getTargets(batch, w, w_, predictOk, dbg) ==
  LET base == [exc |-> "none", predictRaised |-> FALSE, calls |-> <<>>,
               y |-> <<>>, errors |-> <<>>]
  IN IF \E k \in DOMAIN batch : batch[k].data = None
     THEN [base EXCEPT !.exc = "TypeError"]
     ELSE IF ~predictOk
     THEN [base EXCEPT !.predictRaised = TRUE, !.calls = <<"predict">>,
                       !.exc = IF dbg = "continue" THEN "UnboundLocalError"
                               ELSE dbg]
     ELSE LET st == extract_states(batch)
              pr == getPredictions(w, w_, st.states, st.states_)
              out == [k \in DOMAIN batch |->
                        getStateAndPrediction(batch[k], pr.p[k],
                                              pr.pTarget_[k], pr.p_[k])]
          IN [base EXCEPT !.calls = <<"predict">>,
                          !.y = [k \in DOMAIN batch |-> out[k].y],
                          !.errors = [k \in DOMAIN batch |-> out[k].errors]]

\* Mutant of SyncDue: the counter is tested after its increment.
SyncDue_AfterIncrement(n) == (n + 1) % UPDATE_TARGET_FREQUENCY = 0

\* Line 159: whether observe refreshes the target network.
SyncDue(n) == n % UPDATE_TARGET_FREQUENCY = 0

\* Mutant of ReplayUpdates: the priorities are left as they were stored.
ReplayUpdates_Stale(M, batch, errors, k) == M

\* The loop of lines 230-232: memory.update for every batch entry in turn.
RECURSIVE ReplayUpdates(_, _, _, _)
ReplayUpdates(M, batch, errors, k) ==
  IF k > Len(batch) THEN M
  ELSE ReplayUpdates(MemoryUpdate(M, batch[k].idx, errors[k]), batch, errors,
                     k + 1)

\* The calls replay makes once the target computation has succeeded.
ReplayCalls(batch) == [k \in 1 .. Len(batch) |-> "update"] \o <<"train">>

(***************************************************************************)
(* State.                                                                  *)
(***************************************************************************)
VARIABLES
  model,        \* Brain.model: the online approximator's weights
  model_,       \* Brain.model_: the target approximator's weights
  memory,       \* the agent's `memory` attribute: None while unset
  steps,        \* Agent.steps
  epsilon,      \* Agent.epsilon
  ret,          \* the last call: its outcome and what it computed
  memOps,       \* the number of direct Memory.add / update calls made
  agents,       \* the constructed agents of SpecAgents
  classMemory,  \* RandomAgent.memory, the class attribute of line 237
  run           \* the frame of Environment.run

vars == <<model, model_, memory, steps, epsilon, ret, memOps, agents,
          classMemory, run>>

\* No call has been made yet.
RetNone ==
  [op |-> "none", exc |-> "none", agent |-> 0, predictRaised |-> FALSE,
   calls |-> <<>>, n |-> 0, draws |-> <<>>, batch |-> <<>>, p |-> <<>>,
   y |-> <<>>, errors |-> <<>>, w |-> 0, w_ |-> 0, a |-> 0]

RunNone == [pc |-> "idle"]

(***************************************************************************)
(* SpecMemory: one Memory and direct calls of add, update and sample.      *)
(***************************************************************************)
Errors == {0, 3 * Unit}
MemSamples == {x \in Samples : x.s = 0 /\ x.a = 0 /\ x.r = 0 /\ x.s_ /= Some(1)}

\* The tree indices of the leaves that hold a transition.
WrittenLeaves(M) ==
  {i \in M.capacity - 1 .. 2 * M.capacity - 2 : M.data[i - M.capacity + 1] /= None}

MemInit ==
  /\ memory = Some(SumTree(MEMORY_CAPACITY))
  /\ memOps = 0
  /\ ret = RetNone
  /\ model = 0 /\ model_ = 0 /\ steps = 0 /\ epsilon = MAX_EPSILON
  /\ agents = <<>> /\ classMemory = None /\ run = RunNone

MemAddCall ==
  /\ memOps < MaxMemOps
  /\ \E error \in Errors, sample \in MemSamples :
       memory' = Some(MemoryAdd(memory[1], error, sample))
  /\ memOps' = memOps + 1
  /\ ret' = [RetNone EXCEPT !.op = "add"]
  /\ UNCHANGED <<model, model_, steps, epsilon, agents, classMemory, run>>

MemUpdateCall ==
  /\ memOps < MaxMemOps
  /\ \E idx \in WrittenLeaves(memory[1]), error \in Errors :
       memory' = Some(MemoryUpdate(memory[1], idx, error))
  /\ memOps' = memOps + 1
  /\ ret' = [RetNone EXCEPT !.op = "update"]
  /\ UNCHANGED <<model, model_, steps, epsilon, agents, classMemory, run>>

MemSampleCall ==
  /\ \E n \in 1 .. MaxN :
       \E d \in SampleDraws(memory[1], n, n) :
         ret' = [RetNone EXCEPT !.op = "sample", !.n = n, !.draws = d,
                                !.p = SampledPriorities(memory[1], n, d),
                                !.batch = MemorySample(memory[1], n, d)]
  /\ UNCHANGED <<model, model_, memory, steps, epsilon, memOps, agents,
                 classMemory, run>>

MemNext == MemAddCall \/ MemUpdateCall \/ MemSampleCall

SpecMemory == MemInit /\ [][MemNext]_vars

(***************************************************************************)
(* Spec: one Agent and calls of act, observe and replay in any order.      *)
(* Agent.__init__ creates the two networks independently and leaves the    *)
(* memory attribute unset (line 147); the caller may assign a Memory.      *)
(***************************************************************************)
\* 1.0 in the unit of epsilon: the bound of random.random().
EpsOne == Unit * Unit * Unit

Init ==
  /\ model \in Weights
  /\ model_ \in Weights
  /\ memory = None
  /\ steps = 0
  /\ epsilon = MAX_EPSILON
  /\ ret = RetNone
  /\ memOps = 0 /\ agents = <<>> /\ classMemory = None /\ run = RunNone

\* The caller's agent.memory = Memory(MEMORY_CAPACITY).
AssignMemory ==
  /\ memory = None
  /\ memory' = Some(SumTree(MEMORY_CAPACITY))
  /\ ret' = [RetNone EXCEPT !.op = "assign"]
  /\ UNCHANGED <<model, model_, steps, epsilon, memOps, agents, classMemory,
                 run>>

\* Agent.act(s): random.random() < epsilon chooses a random action, and
\* otherwise the best action of the online prediction.
Act ==
  /\ \E s \in States :
       \/ /\ epsilon > 0
          /\ \E a \in Actions : ret' = [RetNone EXCEPT !.op = "act", !.a = a]
       \/ /\ epsilon < EpsOne
          /\ \E ok \in BOOLEAN :
               ret' = IF ok
                      THEN [RetNone EXCEPT !.op = "act", !.calls = <<"predict">>,
                                           !.a = ArgMax(Predict(model, s))]
                      ELSE [RetNone EXCEPT !.op = "act", !.calls = <<"predict">>,
                                           !.predictRaised = TRUE,
                                           !.exc = "PredictError"]
  /\ UNCHANGED <<model, model_, memory, steps, epsilon, memOps, agents,
                 classMemory, run>>

\* Agent.observe(sample).
Observe ==
  /\ steps < MaxSteps
  /\ \E sample \in AgentSamples, ok \in BOOLEAN :
     \E dbg \in IF ok THEN {"continue"} ELSE Debugger :
     \E batch \in {<<[idx |-> 0, data |-> Some(sample)]>>} :
     \E t \in {getTargets(batch, model, model_, ok, dbg)} :
       LET r0 == [RetNone EXCEPT !.op = "observe", !.batch = batch,
                                 !.w = model, !.w_ = model_,
                                 !.predictRaised = t.predictRaised,
                                 !.errors = t.errors]
       IN IF t.exc /= "none"
          THEN /\ ret' = [r0 EXCEPT !.exc = t.exc, !.calls = t.calls]
               /\ UNCHANGED <<model, model_, memory, steps, epsilon>>
          ELSE IF memory = None
          THEN /\ ret' = [r0 EXCEPT !.exc = "AttributeError", !.calls = t.calls]
               /\ UNCHANGED <<model, model_, memory, steps, epsilon>>
          ELSE /\ memory' = Some(MemoryAdd(memory[1], t.errors[1], sample))
               /\ model_' = IF SyncDue(steps) THEN model ELSE model_
               /\ steps' = steps + 1
               /\ epsilon' = Epsilon(steps + 1)
               /\ ret' = [r0 EXCEPT !.calls =
                            t.calls \o <<"add">> \o
                            (IF SyncDue(steps) THEN <<"updateTargetModel">>
                             ELSE <<>>)]
               /\ UNCHANGED model
  /\ UNCHANGED <<memOps, agents, classMemory, run>>

\* Agent.replay().  Brain.train leaves the online weights at any setting.
Replay ==
  /\ IF memory = None
     THEN /\ ret' = [RetNone EXCEPT !.op = "replay", !.exc = "AttributeError"]
          /\ UNCHANGED <<model, model_, memory>>
     ELSE \E d \in SampleDraws(memory[1], BATCH_SIZE, BATCH_SIZE),
             ok \in BOOLEAN :
          \E dbg \in IF ok THEN {"continue"} ELSE Debugger :
          \E batch \in {MemorySample(memory[1], BATCH_SIZE, d)} :
          \E t \in {getTargets(batch, model, model_, ok, dbg)} :
            LET r0 == [RetNone EXCEPT !.op = "replay", !.batch = batch,
                                      !.n = BATCH_SIZE,
                                      !.p = SampledPriorities(memory[1],
                                                              BATCH_SIZE, d),
                                      !.w = model, !.w_ = model_,
                                      !.predictRaised = t.predictRaised,
                                      !.errors = t.errors]
            IN IF t.exc /= "none"
               THEN /\ ret' = [r0 EXCEPT !.exc = t.exc,
                                         !.calls = <<"sample">> \o t.calls]
                    /\ UNCHANGED <<model, model_, memory>>
               ELSE /\ memory' = Some(ReplayUpdates(memory[1], batch, t.errors, 1))
                    /\ model' \in Weights
                    /\ ret' = [r0 EXCEPT !.calls = <<"sample">> \o t.calls
                                            \o ReplayCalls(batch)]
                    /\ UNCHANGED model_
  /\ UNCHANGED <<steps, epsilon, memOps, agents, classMemory, run>>

Next == AssignMemory \/ Act \/ Observe \/ Replay

Spec == Init /\ [][Next]_vars

(***************************************************************************)
(* SpecTargets: the target computation _getTargets on a batch of one       *)
(* transition, for every transition and every pair of online and target    *)
(* weights.                                                                *)
(***************************************************************************)
TargetsInit ==
  /\ model \in Weights
  /\ model_ \in Weights
  /\ memory = None /\ steps = 0 /\ epsilon = MAX_EPSILON /\ ret = RetNone
  /\ memOps = 0 /\ agents = <<>> /\ classMemory = None /\ run = RunNone

GetTargetsCall ==
  /\ \E sample \in Samples, ok \in BOOLEAN :
     \E dbg \in IF ok THEN {"continue"} ELSE Debugger :
       LET batch == <<[idx |-> 0, data |-> Some(sample)]>>
           t == getTargets(batch, model, model_, ok, dbg)
       IN ret' = [RetNone EXCEPT !.op = "getTargets", !.batch = batch,
                                 !.w = model, !.w_ = model_, !.exc = t.exc,
                                 !.predictRaised = t.predictRaised,
                                 !.calls = t.calls, !.y = t.y,
                                 !.errors = t.errors]
  /\ UNCHANGED <<model, model_, memory, steps, epsilon, memOps, agents,
                 classMemory, run>>

TargetsNext == GetTargetsCall

SpecTargets == TargetsInit /\ [][TargetsNext]_vars

(***************************************************************************)
(* SpecAgents: two independently constructed agents, each an Agent or a    *)
(* RandomAgent, with nothing assigned to them from outside.  An Agent has  *)
(* no memory attribute (line 147); a RandomAgent finds the class attribute *)
(* RandomAgent.memory (line 237), one Memory made when the class is        *)
(* defined.                                                                *)
(***************************************************************************)
AgentIds == 1 .. 2
Kinds == {"Agent", "RandomAgent"}

\* What agent i finds as self.memory.
MemoryOf(i) == IF agents[i].kind = "RandomAgent" THEN classMemory ELSE None

AgentsInit ==
  /\ agents \in [AgentIds -> [kind : Kinds, exp : {0}]]
  /\ classMemory = Some(SumTree(MEMORY_CAPACITY))
  /\ model \in Weights /\ model_ \in Weights
  /\ memory = None /\ steps = 0 /\ epsilon = MAX_EPSILON /\ ret = RetNone
  /\ memOps = 0 /\ run = RunNone

\* observe on agent i: RandomAgent.observe (lines 246-249) or
\* Agent.observe (lines 155-164), which fails at self.memory.
AgentsObserve ==
  /\ memOps < MaxObserves
  /\ memOps' = memOps + 1
  /\ \E i \in AgentIds, sample \in AgentSamples :
       IF agents[i].kind = "RandomAgent"
       THEN /\ classMemory' = Some(MemoryAdd(classMemory[1], Abs(sample.r), sample))
            /\ agents' = [agents EXCEPT ![i].exp = @ + 1]
            /\ ret' = [RetNone EXCEPT !.op = "observe", !.agent = i,
                                      !.calls = <<"add">>]
       ELSE \E ok \in BOOLEAN :
            \E dbg \in IF ok THEN {"continue"} ELSE Debugger :
              LET batch == <<[idx |-> 0, data |-> Some(sample)]>>
                  t == getTargets(batch, model, model_, ok, dbg)
              IN /\ ret' = [RetNone EXCEPT
                              !.op = "observe", !.agent = i, !.calls = t.calls,
                              !.predictRaised = t.predictRaised,
                              !.exc = IF t.exc /= "none" THEN t.exc
                                      ELSE "AttributeError"]
                 /\ UNCHANGED <<agents, classMemory>>
  /\ UNCHANGED <<model, model_, memory, steps, epsilon, run>>

\* replay on agent i: RandomAgent.replay (lines 251-252) does nothing;
\* Agent.replay (line 226) fails at self.memory.
AgentsReplay ==
  /\ \E i \in AgentIds :
       ret' = [RetNone EXCEPT !.op = "replay", !.agent = i,
                 !.exc = IF agents[i].kind = "RandomAgent" THEN "none"
                         ELSE "AttributeError"]
  /\ UNCHANGED <<model, model_, memory, steps, epsilon, memOps, agents,
                 classMemory, run>>

AgentsNext == AgentsObserve \/ AgentsReplay

SpecAgents == AgentsInit /\ [][AgentsNext]_vars

(***************************************************************************)
(* SpecRun: one call of Environment.run(agent) (lines 260-288).  The       *)
(* module binds the name numpy (line 12) and never the name np, so the     *)
(* reward clipping of line 274 raises NameError in the first pass of the   *)
(* loop; lines 276-288 are never reached.                                  *)
(***************************************************************************)
\* The rewards the environment hands out, before clipping.
RawRewards == {-2 * Unit, 0, 2 * Unit}
\* The agent run is called with: an Agent as constructed, an Agent the
\* caller gave a Memory, or a RandomAgent.
RunAgents == {"Agent", "Agent with memory", "RandomAgent"}

RunInit ==
  /\ \E k \in RunAgents :
       run = [pc |-> "reset", agent |-> k, s |-> <<>>, a |-> 0, r |-> 0,
              img |-> 0, s_ |-> <<>>, done |-> FALSE, R |-> 0, exc |-> "none",
              log |-> <<>>]
  /\ memory = IF run.agent = "Agent" THEN None
              ELSE Some(SumTree(MEMORY_CAPACITY))
  /\ classMemory = None
  /\ model \in Weights /\ model_ \in Weights
  /\ steps = 0 /\ epsilon = MAX_EPSILON /\ ret = RetNone
  /\ memOps = 0 /\ agents = <<>>

\* Lines 261-265: the first observation, stacked twice.
RunReset ==
  /\ run.pc = "reset"
  /\ \E img \in States :
       run' = [run EXCEPT !.pc = "act", !.img = img, !.s = <<img, img>>]
  /\ UNCHANGED <<model, model_, memory, steps, epsilon, ret, memOps, agents,
                 classMemory>>

\* Line 268: agent.act(s).  No observe has completed, so epsilon is 1 and
\* an Agent explores; a RandomAgent always does.
RunAct ==
  /\ run.pc = "act"
  /\ epsilon > 0
  /\ \E a \in Actions :
       run' = [run EXCEPT !.pc = "step", !.a = a,
                          !.log = Append(@, [call |-> "act", terminal |-> FALSE])]
  /\ UNCHANGED <<model, model_, memory, steps, epsilon, ret, memOps, agents,
                 classMemory>>

\* Lines 270-272: the environment's step and the next stacked state.
RunEnvStep ==
  /\ run.pc = "step"
  /\ \E img \in States, r \in RawRewards, done \in BOOLEAN :
       run' = [run EXCEPT !.pc = "clip", !.img = img, !.r = r, !.done = done,
                          !.s_ = <<run.s[2], img>>]
  /\ UNCHANGED <<model, model_, memory, steps, epsilon, ret, memOps, agents,
                 classMemory>>

\* Line 274: np.clip(r, -1, 1) with np unbound.
RunClip ==
  /\ run.pc = "clip"
  /\ run' = [run EXCEPT !.pc = "raised", !.exc = "NameError"]
  /\ UNCHANGED <<model, model_, memory, steps, epsilon, ret, memOps, agents,
                 classMemory>>

RunNext == RunReset \/ RunAct \/ RunEnvStep \/ RunClip

SpecRun == RunInit /\ [][RunNext]_vars

(***************************************************************************)
(* Properties.                                                             *)
(***************************************************************************)
\* The transition of entry k of the last call's batch.
SampleAt(k) == ret.batch[k].data[1]

\* C1 (SpecTargets).  Bootstrap law: for every transition (s, a, r, s')
\* with a successor, the target written at the taken action is
\* r + GAMMA * Q_target(s', a*), a* the first best action of the online
\* prediction for s'; every other entry is the online prediction for s.
C1_BootstrapLaw ==
  (ret.op = "getTargets" /\ ret.exc = "none") =>
    \A k \in DOMAIN ret.batch :
      SampleAt(k).s_ /= None =>
        LET aStar == ArgMax(Predict(ret.w, SampleAt(k).s_[1]))
            v == Predict(ret.w_, SampleAt(k).s_[1])[aStar]
        IN /\ Unit * (ret.y[k][SampleAt(k).a] - SampleAt(k).r) = GAMMA * v
           /\ \A b \in Actions \ {SampleAt(k).a} :
                 ret.y[k][b] = Predict(ret.w, SampleAt(k).s)[b]

\* A transition with reward 1 and a successor on which the two networks
\* prefer different actions and value the online choice differently.
C1_Witness ==
  /\ ret.op = "getTargets" /\ ret.exc = "none"
  /\ SampleAt(1).s_ /= None /\ SampleAt(1).r = Unit
  /\ LET on == Predict(ret.w, SampleAt(1).s_[1])
         tg == Predict(ret.w_, SampleAt(1).s_[1])
     IN /\ ArgMax(on) /= ArgMax(tg)
        /\ tg[ArgMax(on)] /= on[ArgMax(on)]
        /\ tg[ArgMax(on)] > 0
        /\ Unit * ret.y[1][SampleAt(1).a] = Unit * Unit + GAMMA * tg[ArgMax(on)]

\* C2 (SpecTargets).  Terminal-target law: for every transition whose
\* successor is None the target at the taken action is the reward r
\* itself, whatever the networks predict for the all-zero placeholder.
C2_TerminalTargetLaw ==
  (ret.op = "getTargets" /\ ret.exc = "none") =>
    \A k \in DOMAIN ret.batch :
      SampleAt(k).s_ = None => ret.y[k][SampleAt(k).a] = SampleAt(k).r

\* A terminal transition for which bootstrapping from the placeholder
\* state would have added a non-zero term.
C2_Witness ==
  /\ ret.op = "getTargets" /\ ret.exc = "none"
  /\ SampleAt(1).s_ = None
  /\ Predict(ret.w_, no_state)[ArgMax(Predict(ret.w, no_state))] > 0
  /\ ret.y[1][SampleAt(1).a] = SampleAt(1).r

\* C3 (Spec).  Target-sync cadence: the step counter advances only in an
\* observe that returns; the target weights become the online weights in
\* exactly the observes whose counter before the increment is a multiple
\* of UPDATE_TARGET_FREQUENCY, and no other step (act, replay with its
\* train, an observe that raises) changes them.
C3_Step ==
  /\ steps' /= steps => (steps' = steps + 1 /\ ret'.op = "observe"
                                            /\ ret'.exc = "none")
  /\ (ret'.op = "observe" /\ ret'.exc = "none") => steps' = steps + 1
  /\ IF steps' = steps + 1 /\ steps % UPDATE_TARGET_FREQUENCY = 0
     THEN model_' = model /\ model' = model
     ELSE model_' = model_

\* C3: every step of Spec keeps the target-sync cadence C3_Step.
C3_TargetSyncCadence == [][C3_Step]_vars

\* The observe number UPDATE_TARGET_FREQUENCY + 1 has refreshed the target
\* for the second time, after training had moved the online weights away.
C3_Witness ==
  /\ steps = UPDATE_TARGET_FREQUENCY + 1
  /\ ret.op = "observe" /\ ret.exc = "none"
  /\ ret.calls = <<"predict", "add", "updateTargetModel">>
  /\ ret.w_ /= ret.w
  /\ model_ = model

\* C4 (Spec).  Failures propagate: when predict raises during the target
\* computation of an observe or a replay, that failure reaches the caller,
\* and nothing is added, updated or trained in that call.
C4_FailuresPropagate ==
  (ret.op \in {"observe", "replay"} /\ ret.predictRaised) =>
    /\ ret.exc = "PredictError"
    /\ \A j \in DOMAIN ret.calls : ret.calls[j] \notin {"add", "update", "train"}

\* C5 (SpecMemory).  Empty-buffer error: sample(n) on a memory whose total
\* priority is zero reports an error and returns no batch.
C5_EmptyBufferError ==
  (ret.op = "sample" /\ TreeTotal(memory[1]) = 0) =>
    (ret.exc /= "none" /\ ret.batch = <<>>)

C7_Isolated ==
  \A i \in AgentIds :
    ret'.agent = i => \A j \in AgentIds \ {i} : MemoryOf(j)' = MemoryOf(j)

\* C7: every step of SpecAgents leaves the other agents' memory alone.
C7_ExclusiveOwnership == [][C7_Isolated]_vars

\* C8 (SpecRun).  Terminal sentinel in the driver: once run is over after
\* the environment reported done, the done step has been observed with the
\* sentinel as its successor and then replayed, as the last calls of the
\* episode.
C8_DoneStepObserved ==
  (run.pc \in {"raised", "returned"} /\ run.done) =>
    /\ Len(run.log) >= 2
    /\ run.log[Len(run.log) - 1] = [call |-> "observe", terminal |-> TRUE]
    /\ run.log[Len(run.log)].call = "replay"

\* C9 (Spec).  Replay order and priority refresh: the calls a replay
\* makes are a prefix of sample, target computation, one update per batch
\* entry, train; a replay that returns has made them all, and the priority
\* of each sampled leaf is then the transform of the TD error of its
\* transition under the weights this replay predicted with (the last
\* update of an index sampled twice remaining).
C9_ReplayOrderAndRefresh ==
  ret.op = "replay" =>
    LET full == <<"sample", "predict">>
                  \o [k \in 1 .. BATCH_SIZE |-> "update"] \o <<"train">>
    IN /\ Len(ret.calls) <= Len(full)
       /\ \A j \in DOMAIN ret.calls : ret.calls[j] = full[j]
       /\ ret.exc = "none" =>
            /\ ret.calls = full
            /\ Len(ret.batch) = BATCH_SIZE
            /\ \A k \in DOMAIN ret.batch :
                 LET smp == SampleAt(k)
                     old == Predict(ret.w, smp.s)[smp.a]
                     boot == Predict(ret.w_, smp.s_[1])[ArgMax(Predict(ret.w, smp.s_[1]))]
                     err == IF smp.s_ = None THEN Abs(old - smp.r)
                            ELSE Abs(old - (smp.r + (GAMMA * boot) \div Unit))
                 IN /\ ret.errors[k] = err
                    /\ (\A j \in DOMAIN ret.batch :
                          j > k => ret.batch[j].idx /= ret.batch[k].idx)
                       => memory[1].tree[ret.batch[k].idx] = PriorityOf(err)

\* A replay that returned and left the sampled leaf with another priority
\* than the one it was sampled with.
C9_Witness ==
  /\ ret.op = "replay" /\ ret.exc = "none"
  /\ memory[1].tree[ret.batch[1].idx] /= ret.p[1]
  /\ memory[1].tree[ret.batch[1].idx] = PriorityOf(ret.errors[1])

====
